---- MODULE Spec2Model ----
(***************************************************************************)
(* GrooveGalaxy (src/unnamed/part_002): the Game object as a state machine.*)
(* The variables are the fields of Game that the wave / loop / phase       *)
(* machine, the step sequencer, the combat bookkeeping and the budget      *)
(* economy read and write.  Every DOM handler and the update() tick is one *)
(* action.  Rendering, audio, particles and pixel geometry are left out:   *)
(* whether a projectile or bullet collides in a tick is an input of the    *)
(* tick, as are the wall clock and Math.random().  The defender's position *)
(* is geometry too: updateAI's movement decision is a function of the      *)
(* position and of the threats it is given (AIMove).  this.score is only   *)
(* ever added to; the model keeps what each hit adds (hits).  Power-ups,   *)
(* pause and the tutorial are not modelled.  The older Game class of       *)
(* src/game.js is modelled on the same variables (the definitions whose    *)
(* names end in V1).                                                       *)
(***************************************************************************)
EXTENDS Integers, Sequences, FiniteSets, TLC

VARIABLES
    wavePhase,          \* 'playing' | 'prepare' | 'complete' | 'cardpick' | 'gameover'
    currentWave,
    currentLoop,
    currentStep,
    phaseTimer,
    freezeFrames,
    gridRows,
    grid,               \* the set of <<row, col>> with this.grid[row][col] === true
    aliens,             \* this.aliens, in array order
    evolvedCells,
    alienBudget,
    alienBudgetMax,
    budgetShakeTimer,
    upgrades,           \* the set of card ids with this.upgrades[id] === true
    currentCardChoices,
    defenderHP,
    defenderMaxHP,
    bpm,
    defenderSpeed,      \* this.defender.speed
    shotDelay,
    aiAccuracy,         \* in percent: 30 is the code's 0.3
    aiShotsPerTurn,
    isBossWave,
    bossShield,         \* hits the boss shield still absorbs
    bossShieldTimer,
    bossMissileTimer,
    alienProjectiles,   \* this.alienProjectiles, in array order
    bullets,            \* this.bullets.length
    fireZones,          \* this.fireZones, in array order
    \* history (not fields of Game): what the last handler did
    lastOp,             \* name of the last handler / branch
    stepFired,          \* rows for which alienShoot ran in the last step advance
    respawned,          \* cells whose dead alien the loop boundary of the last update respawned
    revived,            \* cells whose alien the Quick Respawn counter revived in the last update
    killed,             \* cells whose alien a defender bullet killed in the last update
    waveWon,            \* waveComplete() has run in the current wave
    aiView,             \* the last movement decision of updateAI: the position and
                        \* threat map it saw, the zone it chose, where it moved
    hits,               \* the projectiles that damaged the defender in the last update:
                        \* damage, aliensOnStep, what the hit took from
                        \* defenderHP and added to this.score, and isBossWave and
                        \* bossShield at the hit
    absorbed,           \* the projectiles the boss shield absorbed in the last update
    loopTrace,          \* columns the sequencer advanced to while currentLoop had its value
    doneTrace           \* loopTrace of the loop that ended last (<<>>: none yet)

vars == <<wavePhase, currentWave, currentLoop, currentStep, phaseTimer, freezeFrames,
          gridRows, grid, aliens, evolvedCells, alienBudget, alienBudgetMax,
          budgetShakeTimer, upgrades, currentCardChoices, defenderHP, defenderMaxHP,
          bpm, defenderSpeed, shotDelay, aiAccuracy, aiShotsPerTurn, isBossWave,
          bossShield, bossShieldTimer, bossMissileTimer,
          alienProjectiles, bullets, fireZones,
          lastOp, stepFired, respawned, revived, killed, waveWon, aiView, hits, absorbed,
          loopTrace,
          doneTrace>>

(***************************************************************************)
(* Program constants                                                       *)
(***************************************************************************)
gridCols == 16
loopsPerWave == 8
alienCosts == <<3, 2, 1, 2, 4>>
BudgetStart == 8
BudgetCap == 24
BudgetPerWave == 2
BaseHP == 60
HPPerWave == 15
PrepareFrames == 180
CanvasWidth == 800
DefenderWidth == 40
ThreatZones == 16
CompleteFrames == 120
ShakeFrames == 20
FreezeOnHit == 2
ZoneLife == 180
BurnPeriod == 30
BurnDamage == 2
QuickRespawnIn == 8
ShieldPeriod == 1200
MissilePeriod == 1800
ShieldHits == 3
Missiles == 5
MissileDamage == 15

(***************************************************************************)
(* Bounds of the model                                                     *)
(***************************************************************************)
MaxBullets == 1         \* defender bullets in flight (Spec)
MaxProj == 2            \* alien projectiles in flight (Spec)
MaxWaveCombat == 2      \* last wave SpecWave plays
MaxZones == 5           \* fire zones burning at once (SpecWave)
MaxWaveBudget == 2      \* last wave SpecBudget plays
MaxProjBudget == 16     \* alien projectiles in flight (SpecBudget)
MaxWaveCap == 10        \* last wave SpecCap plays
MaxBpmCap == 140        \* highest tempo the cards push to over the games of SpecCap
MaxBpm == 220           \* highest tempo the cards push to
MaxThreats == 2         \* zones holding projectiles at once (SpecDodge)
MaxWaveBoss == 6        \* last wave SpecBoss plays
MaxWaveRespawn == 2     \* last wave SpecRespawn plays
MaxBulletsRespawn == 1  \* defender bullets in flight (SpecRespawn)
MaxWaveGrid == 2        \* last wave SpecGrid plays
MaxWaveShield == 5      \* last wave SpecShield plays
MaxProjShield == 6      \* alien projectiles in flight (SpecShield)
FramesPerStep == 15     \* updates from one step to the next in a boss wave (SpecShield)
MaxWaveLong == 16       \* last wave SpecLong plays
MaxZonesLong == 64      \* fire zones burning at once (SpecLong)
ExtraLoops == 1         \* loops followed past loopsPerWave when a wave does not end

Min(a, b) == IF a < b THEN a ELSE b

Max(a, b) == IF a > b THEN a ELSE b

Abs(a) == IF a < 0 THEN -a ELSE a

Cost(row) == alienCosts[row + 1]

\* The Game object as one record, so that a handler is a function on it.
G == [wavePhase |-> wavePhase, currentWave |-> currentWave, currentLoop |-> currentLoop,
      currentStep |-> currentStep, phaseTimer |-> phaseTimer, freezeFrames |-> freezeFrames,
      gridRows |-> gridRows, grid |-> grid, aliens |-> aliens, evolvedCells |-> evolvedCells,
      alienBudget |-> alienBudget, alienBudgetMax |-> alienBudgetMax,
      budgetShakeTimer |-> budgetShakeTimer, upgrades |-> upgrades,
      currentCardChoices |-> currentCardChoices, defenderHP |-> defenderHP,
      defenderMaxHP |-> defenderMaxHP, bpm |-> bpm, defenderSpeed |-> defenderSpeed,
      shotDelay |-> shotDelay,
      aiAccuracy |-> aiAccuracy, aiShotsPerTurn |-> aiShotsPerTurn,
      isBossWave |-> isBossWave, bossShield |-> bossShield,
      bossShieldTimer |-> bossShieldTimer, bossMissileTimer |-> bossMissileTimer,
      alienProjectiles |-> alienProjectiles,
      bullets |-> bullets, fireZones |-> fireZones,
      lastOp |-> lastOp, stepFired |-> stepFired,
      respawned |-> respawned, revived |-> revived, killed |-> killed,
      waveWon |-> waveWon,
      aiView |-> aiView, hits |-> hits, absorbed |-> absorbed, loopTrace |-> loopTrace,
      doneTrace |-> doneTrace]

Apply(g) ==
    /\ wavePhase' = g.wavePhase
    /\ currentWave' = g.currentWave
    /\ currentLoop' = g.currentLoop
    /\ currentStep' = g.currentStep
    /\ phaseTimer' = g.phaseTimer
    /\ freezeFrames' = g.freezeFrames
    /\ gridRows' = g.gridRows
    /\ grid' = g.grid
    /\ aliens' = g.aliens
    /\ evolvedCells' = g.evolvedCells
    /\ alienBudget' = g.alienBudget
    /\ alienBudgetMax' = g.alienBudgetMax
    /\ budgetShakeTimer' = g.budgetShakeTimer
    /\ upgrades' = g.upgrades
    /\ currentCardChoices' = g.currentCardChoices
    /\ defenderHP' = g.defenderHP
    /\ defenderMaxHP' = g.defenderMaxHP
    /\ bpm' = g.bpm
    /\ defenderSpeed' = g.defenderSpeed
    /\ shotDelay' = g.shotDelay
    /\ aiAccuracy' = g.aiAccuracy
    /\ aiShotsPerTurn' = g.aiShotsPerTurn
    /\ isBossWave' = g.isBossWave
    /\ bossShield' = g.bossShield
    /\ bossShieldTimer' = g.bossShieldTimer
    /\ bossMissileTimer' = g.bossMissileTimer
    /\ alienProjectiles' = g.alienProjectiles
    /\ bullets' = g.bullets
    /\ fireZones' = g.fireZones
    /\ lastOp' = g.lastOp
    /\ stepFired' = g.stepFired
    /\ respawned' = g.respawned
    /\ revived' = g.revived
    /\ killed' = g.killed
    /\ waveWon' = g.waveWon
    /\ aiView' = g.aiView
    /\ hits' = g.hits
    /\ absorbed' = g.absorbed
    /\ loopTrace' = g.loopTrace
    /\ doneTrace' = g.doneTrace

(***************************************************************************)
(* Aliens.  hp = 0 and maxHp = 0 stand for a missing field (both are falsy *)
(* in the code's !alien.hp and alien.maxHp || 1), respawnIn = -1 for a     *)
(* missing respawnIn.                                                      *)
(***************************************************************************)
NewAlien(row, col, hp, maxHp, evolved) ==
    [row |-> row, col |-> col, alive |-> TRUE, hp |-> hp, maxHp |-> maxHp,
     respawnIn |-> -1, evolved |-> evolved]

AliveAt(as, row, col) ==
    \E i \in 1..Len(as) : as[i].row = row /\ as[i].col = col /\ as[i].alive

AliveInCol(as, col) ==
    Cardinality({i \in 1..Len(as) : as[i].col = col /\ as[i].alive})

(***************************************************************************)
(* toggleGridCell                                                          *)
(***************************************************************************)
ToggleNoBudgetCheck(g, row, col) ==
    IF <<row, col>> \in g.grid
    THEN [g EXCEPT !.grid = @ \ {<<row, col>>},
                   !.aliens = SelectSeq(@, LAMBDA a : ~(a.row = row /\ a.col = col)),
                   !.alienBudget = Min(@ + Cost(row), g.alienBudgetMax),
                   !.evolvedCells = @ \ {<<row, col>>},
                   !.lastOp = "toggleOff"]
    ELSE [g EXCEPT !.grid = @ \cup {<<row, col>>},
                   !.aliens = Append(@, NewAlien(row, col, 0, 0, <<row, col>> \in g.evolvedCells)),
                   !.alienBudget = @ - Cost(row),
                   !.lastOp = "toggleOn"]

ToggleGridCell(g, row, col) ==
    IF <<row, col>> \in g.grid
    THEN [g EXCEPT !.grid = @ \ {<<row, col>>},
                   !.aliens = SelectSeq(@, LAMBDA a : ~(a.row = row /\ a.col = col)),
                   !.alienBudget = Min(@ + Cost(row), g.alienBudgetMax),
                   !.evolvedCells = @ \ {<<row, col>>},
                   !.lastOp = "toggleOff"]
    ELSE IF g.alienBudget < Cost(row)
    THEN [g EXCEPT !.budgetShakeTimer = ShakeFrames,
                   !.lastOp = "toggleReject"]
    ELSE [g EXCEPT !.grid = @ \cup {<<row, col>>},
                   !.aliens = Append(@, NewAlien(row, col, 0, 0, <<row, col>> \in g.evolvedCells)),
                   !.alienBudget = @ - Cost(row),
                   !.lastOp = "toggleOn"]

(***************************************************************************)
(* clearGrid, loadPreset                                                   *)
(***************************************************************************)
\* clearGrid emptying the grid and leaving the aliens where they stand
ClearGridKeepAliens(g) ==
    [g EXCEPT !.grid = {}, !.alienBudget = g.alienBudgetMax]

ClearGrid(g) ==
    [g EXCEPT !.grid = {}, !.aliens = <<>>, !.alienBudget = g.alienBudgetMax]

\* The four patterns of setupPresetButtons, as the cells that hold a 1.
PresetRow(cols, row) == {<<row, c>> : c \in cols}
Presets ==
    [rock   |-> PresetRow({0, 4, 8, 12}, 0) \cup PresetRow({2, 6, 10, 14}, 1)
                \cup PresetRow({0, 2, 4, 6, 8, 10, 12, 14}, 2),
     funk   |-> PresetRow({0, 3, 6, 8, 11, 14}, 0) \cup PresetRow({4, 12}, 1)
                \cup PresetRow({0, 2, 3, 5, 6, 8, 10, 11, 13, 14}, 2),
     jazz   |-> PresetRow({0, 8}, 0) \cup PresetRow({3, 7, 11, 15}, 1)
                \cup PresetRow({0, 2, 4, 6, 8, 10, 12, 14}, 2),
     hiphop |-> PresetRow({0, 8}, 0) \cup PresetRow({4, 12}, 1)
                \cup PresetRow({0, 3, 6, 8, 11, 14}, 2)]

\* The double loop of loadPreset from position k = col * gridRows + row on.
RECURSIVE PresetFill(_, _, _)
PresetFill(g, pattern, k) ==
    IF k >= gridCols * g.gridRows THEN g
    ELSE LET col == k \div g.gridRows
             row == k % g.gridRows
         IN IF <<row, col>> \in pattern /\ g.alienBudget >= Cost(row)
            THEN PresetFill(
                   [g EXCEPT !.grid = @ \cup {<<row, col>>},
                             !.aliens = Append(@, NewAlien(row, col, 0, 0,
                                                   <<row, col>> \in g.evolvedCells)),
                             !.alienBudget = @ - Cost(row)],
                   pattern, k + 1)
            ELSE PresetFill(g, pattern, k + 1)

LoadPreset(g, pattern) ==
    [PresetFill(ClearGrid(g), pattern, 0) EXCEPT !.lastOp = "loadPreset"]

(***************************************************************************)
(* respawnAliens, updateAIForWave                                          *)
(***************************************************************************)
RespawnHP(g) == (IF "alienArmor" \in g.upgrades THEN 2 ELSE 1) * (IF g.isBossWave THEN 3 ELSE 1)

\* The double loop of respawnAliens from position k = row * gridCols + col on.
RECURSIVE RespawnFrom(_, _, _)
RespawnFrom(g, k, acc) ==
    IF k >= g.gridRows * gridCols THEN acc
    ELSE LET row == k \div gridCols
             col == k % gridCols
         IN IF <<row, col>> \in g.grid
            THEN RespawnFrom(g, k + 1,
                     Append(acc, NewAlien(row, col, RespawnHP(g), RespawnHP(g),
                                          <<row, col>> \in g.evolvedCells)))
            ELSE RespawnFrom(g, k + 1, acc)

RespawnNone(g) == g

RespawnAliens(g) == [g EXCEPT !.aliens = RespawnFrom(g, 0, <<>>)]

\* Math.round(5 * speedScale), speedScale = 1 + ((bpm - 60) / (200 - 60)) * 1.5:
\* 5 * speedScale = (560 + 6 * (bpm - 60)) / 112, rounded half up
SpeedForBpm(b) == (560 + 6 * (b - 60) + 56) \div 112

\* Math.round(5 * speedScale * 1.5) = (840 + 9 * (bpm - 60)) / 112, rounded half up
BossSpeedForBpm(b) == (840 + 9 * (b - 60) + 56) \div 112

\* the chain with the berserk test ahead of the boss test
AIBerserkFirst(w) ==
    IF w = 1 THEN [shotDelay |-> 1500, aiAccuracy |-> 30, aiShotsPerTurn |-> 1]
    ELSE IF w <= 2 THEN [shotDelay |-> 1200, aiAccuracy |-> 40, aiShotsPerTurn |-> 1]
    ELSE IF w = 3 THEN [shotDelay |-> 900, aiAccuracy |-> 50, aiShotsPerTurn |-> 1]
    ELSE IF w = 4 THEN [shotDelay |-> 600, aiAccuracy |-> 65, aiShotsPerTurn |-> 1]
    ELSE IF w >= 10 THEN [shotDelay |-> 200, aiAccuracy |-> 90, aiShotsPerTurn |-> 3]
    ELSE IF w % 5 = 0 THEN [shotDelay |-> 400, aiAccuracy |-> 80, aiShotsPerTurn |-> 2]
    ELSE [shotDelay |-> 350, aiAccuracy |-> 85, aiShotsPerTurn |-> 2]

\* the if / else-if chain of updateAIForWave on currentWave = w
AIForWave(w) ==
    IF w = 1 THEN [shotDelay |-> 1500, aiAccuracy |-> 30, aiShotsPerTurn |-> 1]
    ELSE IF w <= 2 THEN [shotDelay |-> 1200, aiAccuracy |-> 40, aiShotsPerTurn |-> 1]
    ELSE IF w = 3 THEN [shotDelay |-> 900, aiAccuracy |-> 50, aiShotsPerTurn |-> 1]
    ELSE IF w = 4 THEN [shotDelay |-> 600, aiAccuracy |-> 65, aiShotsPerTurn |-> 1]
    ELSE IF w % 5 = 0 THEN [shotDelay |-> 400, aiAccuracy |-> 80, aiShotsPerTurn |-> 2]
    ELSE IF w >= 10 THEN [shotDelay |-> 200, aiAccuracy |-> 90, aiShotsPerTurn |-> 3]
    ELSE [shotDelay |-> 350, aiAccuracy |-> 85, aiShotsPerTurn |-> 2]

UpdateAIForWave(g) ==
    [g EXCEPT !.shotDelay = AIForWave(g.currentWave).shotDelay,
              !.aiAccuracy = AIForWave(g.currentWave).aiAccuracy,
              !.aiShotsPerTurn = AIForWave(g.currentWave).aiShotsPerTurn,
              !.defenderSpeed = IF g.currentWave >= 5 /\ g.currentWave % 5 = 0
                                THEN BossSpeedForBpm(g.bpm) ELSE @,
              !.bossShieldTimer = IF g.currentWave >= 5 /\ g.currentWave % 5 = 0
                                  THEN ShieldPeriod ELSE @,
              !.bossMissileTimer = IF g.currentWave >= 5 /\ g.currentWave % 5 = 0
                                   THEN MissilePeriod ELSE @,
              !.defenderMaxHP = BaseHP + (g.currentWave - 1) * HPPerWave]

(***************************************************************************)
(* Cards: getCardPool, generateCardChoices, applyUpgrade, selectCard       *)
(***************************************************************************)
CardPool == <<"napalmRounds", "chainLightning", "homingBoost", "volleyFire",
              "alienArmor", "quickRespawn", "lootDenial",
              "extraRow", "tempoPush", "doubleTime", "scramble", "mirrorBeat">>

Repeatables == <<"damageBoost", "hpBoost", "speedBoost">>

\* Math.floor(Math.random() * len) is any index below len: the draw d, or the
\* last index when d is larger
RandIndex(d, len) == Min(d, len - 1)

RemoveAt(s, i) == [j \in 1..(Len(s) - 1) |-> IF j < i THEN s[j] ELSE s[j + 1]]

\* for (let i = 0; i < Math.min(3, poolCopy.length); i++) { pick; splice }
RECURSIVE PickLoop(_, _, _, _)
PickLoop(choices, poolCopy, i, draws) ==
    IF i < Min(3, Len(poolCopy))
    THEN LET idx == RandIndex(draws[i + 1], Len(poolCopy)) + 1
         IN PickLoop(Append(choices, poolCopy[idx]), RemoveAt(poolCopy, idx), i + 1, draws)
    ELSE choices

\* while (choices.length < 3 && available.length > 0) push a random available card
RECURSIVE FillLoop(_, _, _)
FillLoop(choices, available, draws) ==
    IF Len(choices) < 3 /\ Len(available) > 0
    THEN FillLoop(Append(choices,
                         available[RandIndex(draws[Len(choices) + 1], Len(available)) + 1]),
                  available, draws)
    ELSE choices

GenerateCardChoices(upg, draws) ==
    LET available == SelectSeq(CardPool, LAMBDA id : id \notin upg)
    IN IF Len(available) = 0 THEN Repeatables
       ELSE FillLoop(PickLoop(<<>>, available, 0, draws), available, draws)

ArmorHP(g) == IF "alienArmor" \in g.upgrades THEN 2 ELSE 1

\* scramble: the cells in fill (those for which Math.random() < 0.3) that are empty
RECURSIVE ScrambleFrom(_, _, _)
ScrambleFrom(g, fill, k) ==
    IF k >= g.gridRows * gridCols THEN g
    ELSE LET row == k \div gridCols
             col == k % gridCols
         IN IF <<row, col>> \notin g.grid /\ <<row, col>> \in fill
            THEN ScrambleFrom([g EXCEPT !.grid = @ \cup {<<row, col>>},
                                        !.aliens = Append(@, NewAlien(row, col, ArmorHP(g), 0, FALSE))],
                              fill, k + 1)
            ELSE ScrambleFrom(g, fill, k + 1)

\* mirrorBeat: position k = row * (gridCols / 2) + col over the left half
RECURSIVE MirrorFrom(_, _)
MirrorFrom(g, k) ==
    IF k >= g.gridRows * (gridCols \div 2) THEN g
    ELSE LET row == k \div (gridCols \div 2)
             col == k % (gridCols \div 2)
             mirrorCol == gridCols - 1 - col
         IN IF <<row, col>> \in g.grid /\ <<row, mirrorCol>> \notin g.grid
            THEN MirrorFrom([g EXCEPT !.grid = @ \cup {<<row, mirrorCol>>},
                                      !.aliens = Append(@, NewAlien(row, mirrorCol, ArmorHP(g), 0, FALSE))],
                            k + 1)
            ELSE IF <<row, col>> \notin g.grid /\ <<row, mirrorCol>> \in g.grid
            THEN MirrorFrom([g EXCEPT !.grid = @ \cup {<<row, col>>},
                                      !.aliens = Append(@, NewAlien(row, col, ArmorHP(g), 0, FALSE))],
                            k + 1)
            ELSE MirrorFrom(g, k + 1)

ApplyUpgrade(g, card, fill) ==
    CASE card = "alienArmor" ->
           [g EXCEPT !.aliens = [i \in 1..Len(@) |->
                                   IF @[i].hp = 0 THEN [@[i] EXCEPT !.hp = 2] ELSE @[i]]]
      [] card = "extraRow" ->
           IF g.gridRows = 3 THEN [g EXCEPT !.gridRows = 4] ELSE g
      [] card = "scramble" -> ScrambleFrom(g, fill, 0)
      [] card = "mirrorBeat" -> MirrorFrom(g, 0)
      [] card = "tempoPush" ->
           [g EXCEPT !.bpm = @ + 20, !.defenderSpeed = SpeedForBpm(g.bpm + 20)]
      [] card = "speedBoost" -> [g EXCEPT !.defenderSpeed = @ + 1]
      [] card = "hpBoost" ->
           [g EXCEPT !.defenderMaxHP = @ + HPPerWave, !.defenderHP = @ + HPPerWave]
      [] OTHER -> g

\* the budget's maximum growing without its cap
BudgetMaxNoCap(w) == BudgetStart + (w - 1) * BudgetPerWave

BudgetMaxForWave(w) == Min(BudgetCap, BudgetStart + (w - 1) * BudgetPerWave)

\* a boss wave every tenth wave only
IsBossEveryTen(w) == w % 10 = 0

\* this.isBossWave = (this.currentWave % 5 === 0)
IsBoss(w) == w % 5 = 0

\* selectCard resuming play at once, without the prepare phase
SelectCardNoPrepare(g, index, fill) ==
    [g EXCEPT !.wavePhase = "playing", !.lastOp = "selectCard", !.waveWon = FALSE]

SelectCard(g, index, fill) ==
    IF index < 0 \/ index >= Len(g.currentCardChoices) THEN g
    ELSE LET card == g.currentCardChoices[index + 1]
             g1 == ApplyUpgrade(g, card, fill)
             g2 == [g1 EXCEPT !.upgrades = @ \cup {card},
                              !.currentWave = @ + 1]
             g3 == [g2 EXCEPT !.alienBudgetMax = BudgetMaxForWave(g2.currentWave),
                              !.alienBudget = BudgetMaxForWave(g2.currentWave)]
             g4 == UpdateAIForWave(g3)
             g5 == [g4 EXCEPT !.isBossWave = IsBoss(g4.currentWave),
                              !.wavePhase = "prepare",
                              !.phaseTimer = 0,
                              !.currentCardChoices = <<>>]
         IN [RespawnAliens(g5) EXCEPT !.lastOp = "selectCard", !.waveWon = FALSE]

(***************************************************************************)
(* restartGame                                                             *)
(***************************************************************************)
RestartGame(g) ==
    LET g1 == [g EXCEPT !.currentWave = 1, !.currentLoop = 1,
                        !.defenderHP = g.defenderMaxHP,
                        !.wavePhase = "playing",
                        !.isBossWave = FALSE,
                        !.upgrades = {},
                        !.currentCardChoices = <<>>,
                        !.fireZones = <<>>,
                        !.alienBudget = BudgetStart,
                        !.alienBudgetMax = BudgetStart,
                        !.evolvedCells = {},
                        !.bullets = 0,
                        !.alienProjectiles = <<>>]
    IN [RespawnAliens(UpdateAIForWave(g1)) EXCEPT
            !.lastOp = "restartGame", !.waveWon = FALSE,
            !.loopTrace = <<>>, !.doneTrace = <<>>]

(***************************************************************************)
(* The constructor and loadPatternFromURL.  A hash is [rows |-> the values  *)
(* parseInt(rows[i], 16) of the pattern's parts (<<>>: no pattern), bpm |-> *)
(* parseInt(bpm) (0: no bpm parameter)].                                    *)
(***************************************************************************)
HasBit(bits, col) == (bits \div (2 ^ (15 - col))) % 2 = 1

RECURSIVE URLFill(_, _, _)
URLFill(g, rows, k) ==
    IF k >= Min(Len(rows), 3) * gridCols THEN g
    ELSE LET row == k \div gridCols
             col == k % gridCols
         IN IF HasBit(rows[row + 1], col)
            THEN URLFill([g EXCEPT !.grid = @ \cup {<<row, col>>},
                                   !.aliens = Append(@, NewAlien(row, col, 0, 0, FALSE))],
                         rows, k + 1)
            ELSE URLFill(g, rows, k + 1)

LoadPatternFromURL(g, hash) ==
    LET g1 == IF Len(hash.rows) >= 3 THEN URLFill(ClearGrid(g), hash.rows, 0) ELSE g
    IN IF hash.bpm >= 60 /\ hash.bpm <= 200
       THEN [g1 EXCEPT !.bpm = hash.bpm, !.defenderSpeed = SpeedForBpm(hash.bpm)]
       ELSE g1

\* the 'input' listener of the BPM slider
BpmInput(g, newBpm) ==
    [g EXCEPT !.bpm = newBpm, !.defenderSpeed = SpeedForBpm(newBpm),
              !.lastOp = "bpmInput"]

Constructed ==
    [wavePhase |-> "playing", currentWave |-> 1, currentLoop |-> 1,
     currentStep |-> 0, phaseTimer |-> 0, freezeFrames |-> 0,
     gridRows |-> 3, grid |-> {}, aliens |-> <<>>, evolvedCells |-> {},
     alienBudget |-> BudgetStart, alienBudgetMax |-> BudgetStart,
     budgetShakeTimer |-> 0, upgrades |-> {},
     currentCardChoices |-> <<>>, defenderHP |-> BaseHP,
     defenderMaxHP |-> BaseHP, bpm |-> 120, defenderSpeed |-> 5,
     shotDelay |-> 900, aiAccuracy |-> 50,
     aiShotsPerTurn |-> 1,
     isBossWave |-> FALSE, bossShield |-> 0, bossShieldTimer |-> 0,
     bossMissileTimer |-> 0, alienProjectiles |-> <<>>,
     bullets |-> 0, fireZones |-> <<>>,
     lastOp |-> "init", stepFired |-> {},
     respawned |-> {}, revived |-> {}, killed |-> {}, waveWon |-> FALSE,
     aiView |-> [seen |-> FALSE], hits |-> <<>>, absorbed |-> <<>>,
     loopTrace |-> <<>>,
     doneTrace |-> <<>>]

(***************************************************************************)
(* alienShoot: the projectiles one call pushes                             *)
(***************************************************************************)
Proj(type, damage, n) == [type |-> type, damage |-> damage, aliensOnStep |-> n]

HasSilence(as, col) ==
    /\ col >= 2
    /\ AliveInCol(as, col - 1) = 0
    /\ AliveInCol(as, col - 2) = 0

\* damageMultiplier in hundredths: 1.5 (salvo) * 1.3 (syncopated) * 2.0 (silence)
MultiplierPct(as, col) ==
    ((IF AliveInCol(as, col) >= 3 THEN 15 ELSE 10)
     * (IF col % 2 = 1 THEN 13 ELSE 10)
     * (IF HasSilence(as, col) THEN 2 ELSE 1))

BaseDamage(row, n) ==
    IF row = 0 THEN (IF n = 3 THEN 18 ELSE IF n = 2 THEN 15 ELSE 12)
    ELSE IF row = 2 THEN (IF n = 3 THEN 10 ELSE IF n = 2 THEN 8 ELSE 6)
    ELSE (IF n >= 2 THEN 4 ELSE 3)

ShotDamage(g, alien) ==
    LET n == AliveInCol(g.aliens, alien.col)
        b0 == BaseDamage(alien.row, n)
        b1 == IF g.isBossWave THEN (b0 * 3) \div 2 ELSE b0
        b2 == (b1 * MultiplierPct(g.aliens, alien.col)) \div 100
    IN IF alien.evolved THEN b2 + 2 ELSE b2

AlienShoot(g, alien) ==
    LET n == AliveInCol(g.aliens, alien.col)
        d == ShotDamage(g, alien)
    IN IF alien.row = 0 THEN <<Proj("cannon", d, n)>>
       ELSE IF alien.row = 2 THEN <<Proj("homing", d, n)>>
       ELSE IF alien.row \in {1, 3}
            THEN <<Proj("burst", d, n), Proj("burst", d, n), Proj("burst", d, n)>>
       ELSE <<>>

(***************************************************************************)
(* waveComplete, gameLost                                                  *)
(***************************************************************************)
WaveComplete(g, draws) ==
    [g EXCEPT !.defenderMaxHP = BaseHP + g.currentWave * HPPerWave,
              !.defenderHP = BaseHP + g.currentWave * HPPerWave,
              !.currentCardChoices = GenerateCardChoices(g.upgrades, draws),
              !.wavePhase = "cardpick",
              !.phaseTimer = 0,
              !.alienProjectiles = <<>>,
              !.bullets = 0,
              !.waveWon = TRUE]

GameLost(g) == [g EXCEPT !.wavePhase = "gameover"]

(***************************************************************************)
(* updateAI: the movement decision.  Threats are in hundredths: src maps    *)
(* the zones that hold projectiles (or heat-map columns) to the urgency     *)
(* summed over them, x is this.defender.x.                                  *)
(***************************************************************************)
ZoneWidth == CanvasWidth \div ThreatZones

\* threatMap[z] += urgency * (z === zone ? 1.0 : 0.5) over zone - 1 .. zone + 1
ThreatMap(src) ==
    LET own(z) == IF z \in DOMAIN src THEN src[z] ELSE 0
    IN [z \in 0..(ThreatZones - 1) |-> own(z) + own(z - 1) \div 2 + own(z + 1) \div 2]

\* the score of a zone without the penalty of the corners
DodgeScoreNoCorner(tm, z, currentZone) ==
    tm[z] * 3 + Abs(z - currentZone) * 10 + Abs(z - 8) * 2

\* score = threat * 3 + distance * 0.1 + (corner ? 0.5 : 0) + |z - 8| * 0.02
DodgeScore(tm, z, currentZone) ==
    tm[z] * 3 + Abs(z - currentZone) * 10
    + (IF z <= 1 \/ z >= 14 THEN 50 ELSE 0) + Abs(z - 8) * 2

\* for (z = max(0, currentZone - 4); z <= min(15, currentZone + 4); z++)
\*     if (score < bestScore) { bestScore = score; bestZone = z }
\* bestScore = -1 stands for Infinity
RECURSIVE BestZoneLoop(_, _, _, _, _)
BestZoneLoop(tm, currentZone, z, bestZone, bestScore) ==
    IF z > Min(ThreatZones - 1, currentZone + 4) THEN bestZone
    ELSE LET score == DodgeScore(tm, z, currentZone)
         IN IF bestScore < 0 \/ score < bestScore
            THEN BestZoneLoop(tm, currentZone, z + 1, z, score)
            ELSE BestZoneLoop(tm, currentZone, z + 1, bestZone, bestScore)

\* the alive alien nearest to the defender's centre: <<index, distance>>, <<0, 0>> if none
RECURSIVE NearestAlien(_, _, _, _)
NearestAlien(as, center, i, best) ==
    IF i > Len(as) THEN best
    ELSE LET distance == Abs(as[i].col * (CanvasWidth \div gridCols)
                             + (CanvasWidth \div gridCols) \div 2 - center)
         IN IF as[i].alive /\ (best[1] = 0 \/ distance < best[2])
            THEN NearestAlien(as, center, i + 1, <<i, distance>>)
            ELSE NearestAlien(as, center, i + 1, best)

\* moveDefender(direction)
MoveDefender(x, speed, direction) ==
    LET newX == x + direction * speed
    IN IF newX >= 0 /\ newX <= CanvasWidth - DefenderWidth THEN newX ELSE x

AIMove(g, x, src) ==
    LET defenderCenter == x + DefenderWidth \div 2
        canvasCenter == CanvasWidth \div 2
        atLeftWall == x <= 5
        atRightWall == x >= CanvasWidth - DefenderWidth - 5
        threatMap == ThreatMap(src)
        currentZone == defenderCenter \div ZoneWidth
        currentThreat == threatMap[currentZone]
        bestZone == BestZoneLoop(threatMap, currentZone, Max(0, currentZone - 4),
                                 currentZone, -1)
        nearest == NearestAlien(g.aliens, defenderCenter, 1, <<0, 0>>)
        alienX == g.aliens[nearest[1]].col * (CanvasWidth \div gridCols)
                  + (CanvasWidth \div gridCols) \div 2
        moveDir == IF currentThreat > 30
                   THEN (IF bestZone < currentZone THEN -1
                         ELSE IF bestZone > currentZone THEN 1
                         ELSE IF atLeftWall THEN 1
                         ELSE IF atRightWall THEN -1
                         ELSE 0)
                   ELSE IF nearest[1] # 0 /\ nearest[2] > 10
                   THEN (IF alienX > defenderCenter THEN 1 ELSE -1)
                   ELSE IF Abs(defenderCenter - canvasCenter) > 100
                   THEN (IF canvasCenter > defenderCenter THEN 1 ELSE -1)
                   ELSE 0
    IN [g EXCEPT !.lastOp = "updateAI",
                 !.aiView = [seen |-> TRUE, x |-> x, speed |-> g.defenderSpeed,
                             threatMap |-> threatMap,
                             currentZone |-> currentZone,
                             underFire |-> currentThreat > 30,
                             bestZone |-> IF currentThreat > 30 THEN bestZone ELSE currentZone,
                             newX |-> IF moveDir # 0
                                      THEN MoveDefender(x, g.defenderSpeed, moveDir)
                                      ELSE x]]

(***************************************************************************)
(* update(): the sections of one tick, in the order of the code.  The      *)
(* tick's inputs are in:                                                   *)
(*   stepDue   performance.now() - lastStepTime >= stepInterval            *)
(*   shoot     the AI's shot timer has run out and Math.random() < accuracy*)
(*   bout[i]   what bullet i does: 0 (flies on), -1 (left the screen) or   *)
(*             k >= 1, the index of the alien it collides with             *)
(*   pout[i]   what projectile i does: "fly", "off", "hit" (direct         *)
(*             collision) or "blast" (cannon near miss)                    *)
(*   zin[i]    the defender is within 20 px of fire zone i                 *)
(*   draws     the Math.random() draws of generateCardChoices              *)
(***************************************************************************)
\* Update fire zones (Napalm Rounds)
FireZonesSection(g, zin) ==
    LET n == Len(g.fireZones)
        burns(i) == zin[i] /\ g.fireZones[i].damageTimer + 1 >= BurnPeriod
        aged == [i \in 1..n |->
                   [life |-> g.fireZones[i].life - 1,
                    damageTimer |-> IF zin[i]
                                    THEN (IF burns(i) THEN 0 ELSE g.fireZones[i].damageTimer + 1)
                                    ELSE g.fireZones[i].damageTimer]]
    IN [g EXCEPT !.fireZones = SelectSeq(aged, LAMBDA z : z.life > 0),
                 !.defenderHP = @ - BurnDamage * Cardinality({i \in 1..n : burns(i)})]

\* updateAI: the shooting logic
ShootSection(g, shoot) ==
    IF shoot /\ (\E i \in 1..Len(g.aliens) : g.aliens[i].alive)
    THEN [g EXCEPT !.bullets = @ + g.aiShotsPerTurn]
    ELSE g

\* BOSS AI - special attacks: the shield bubble and the missile barrage
BossAISection(g) ==
    IF ~(g.isBossWave /\ g.defenderHP > 0) THEN g
    ELSE LET g1 == IF g.bossShieldTimer = 0 THEN g
                   ELSE IF g.bossShieldTimer - 1 = 0
                   THEN [g EXCEPT !.bossShield = ShieldHits,
                                  !.bossShieldTimer = ShieldPeriod]
                   ELSE [g EXCEPT !.bossShieldTimer = @ - 1]
         IN IF g1.bossMissileTimer = 0 THEN g1
            ELSE IF g1.bossMissileTimer - 1 = 0
            THEN [g1 EXCEPT !.alienProjectiles =
                               @ \o [k \in 1..Missiles |-> Proj("homing", MissileDamage, 1)],
                            !.bossMissileTimer = MissilePeriod]
            ELSE [g1 EXCEPT !.bossMissileTimer = @ - 1]

\* one bullet that collides with alien k
BulletHit(g, k) ==
    LET a == g.aliens[k]
        hp == (IF a.hp = 0 THEN 1 ELSE a.hp) - 1
        a2 == IF hp <= 0
              THEN [a EXCEPT !.hp = hp, !.alive = FALSE,
                             !.respawnIn = IF "quickRespawn" \in g.upgrades
                                           THEN QuickRespawnIn ELSE @]
              ELSE [a EXCEPT !.hp = hp]
    IN [g EXCEPT !.aliens[k] = a2, !.bullets = @ - 1,
                 !.killed = IF hp <= 0 THEN @ \cup {<<a.row, a.col>>} ELSE @]

RECURSIVE BulletLoop(_, _, _)
BulletLoop(g, bout, i) ==
    IF i = 0 THEN g
    ELSE IF bout[i] = 0 THEN BulletLoop(g, bout, i - 1)
    ELSE IF bout[i] = -1 THEN BulletLoop([g EXCEPT !.bullets = @ - 1], bout, i - 1)
    ELSE BulletLoop(BulletHit(g, bout[i]), bout, i - 1)

\* the score of a hit without the crossfire bonus
HitScoreNoBonus(damage, n) == damage

\* this.score += proj.damage, then the bonus score for crossfire
HitScore(damage, n) ==
    damage + (IF n = 2 THEN 10 ELSE IF n = 3 THEN 30 ELSE 0)

\* the defender takes the damage of projectile i; a cannon's near miss has
\* halved proj.damage before
DefenderHit(g, i, blast, draws) ==
    LET proj == g.alienProjectiles[i]
        damage == IF blast THEN proj.damage \div 2 ELSE proj.damage
        zones == IF "napalmRounds" \in g.upgrades /\ proj.type = "cannon"
                 THEN Append(g.fireZones, [life |-> ZoneLife, damageTimer |-> 0])
                 ELSE g.fireZones
        pushed == IF "chainLightning" \in g.upgrades /\ proj.type = "burst"
                  THEN Append(g.alienProjectiles, Proj("burst", 3, 1))
                  ELSE g.alienProjectiles
        g1 == [g EXCEPT !.defenderHP = @ - damage,
                        !.freezeFrames = FreezeOnHit,
                        !.fireZones = zones,
                        !.alienProjectiles = RemoveAt(pushed, i)]
        g2 == [g1 EXCEPT !.hits = Append(@, [damage |-> damage,
                                             aliensOnStep |-> proj.aliensOnStep,
                                             boss |-> g.isBossWave,
                                             shield |-> g.bossShield,
                                             hpLoss |-> g.defenderHP - g1.defenderHP,
                                             scoreGain |-> HitScore(damage, proj.aliensOnStep)])]
    IN IF g2.defenderHP <= 0
       THEN WaveComplete([g2 EXCEPT !.defenderHP = 0], draws)
       ELSE g2

\* the boss shield taking hits on every wave
ShieldUpAnyWave(g) == g.bossShield > 0

\* if (this.isBossWave && this.bossShield > 0)
ShieldUp(g) == g.isBossWave /\ g.bossShield > 0

\* Check boss shield first: projectile i is absorbed
ShieldAbsorb(g, i) ==
    LET g1 == [g EXCEPT !.bossShield = @ - 1,
                        !.alienProjectiles = RemoveAt(@, i)]
    IN [g1 EXCEPT !.absorbed = Append(@, [boss |-> g.isBossWave,
                                          shield |-> g.bossShield,
                                          left |-> g1.bossShield,
                                          hpLoss |-> g.defenderHP - g1.defenderHP,
                                          scoreGain |-> 0])]

RECURSIVE ProjLoop(_, _, _, _)
ProjLoop(g, pout, i, draws) ==
    IF i = 0 THEN g
    ELSE IF i > Len(g.alienProjectiles) THEN ProjLoop(g, pout, i - 1, draws)
    ELSE IF pout[i] = "fly" THEN ProjLoop(g, pout, i - 1, draws)
    ELSE IF pout[i] = "off"
         THEN ProjLoop([g EXCEPT !.alienProjectiles = RemoveAt(@, i)], pout, i - 1, draws)
    ELSE IF ShieldUp(g) THEN ProjLoop(ShieldAbsorb(g, i), pout, i - 1, draws)
    ELSE ProjLoop(DefenderHit(g, i, pout[i] = "blast", draws), pout, i - 1, draws)

\* the index of the first alien standing on the cell, dead or alive; 0 if none
FindAt(as, row, col) ==
    LET at == {i \in 1..Len(as) : as[i].row = row /\ as[i].col = col}
    IN IF at = {} THEN 0 ELSE CHOOSE i \in at : \A j \in at : i <= j

\* aliens.find(a => a && a.row === row && a.col === col && a.alive); 0 if none
FindAlive(as, row, col) ==
    LET at == {i \in 1..Len(as) : as[i].row = row /\ as[i].col = col /\ as[i].alive}
    IN IF at = {} THEN 0 ELSE CHOOSE i \in at : \A j \in at : i <= j

RECURSIVE FireRows(_, _)
FireRows(g, row) ==
    IF row >= g.gridRows THEN g
    ELSE IF <<row, g.currentStep>> \in g.grid
            /\ FindAlive(g.aliens, row, g.currentStep) # 0
         THEN LET alien == g.aliens[FindAlive(g.aliens, row, g.currentStep)]
                  shots == IF "volleyFire" \in g.upgrades
                           THEN AlienShoot(g, alien) \o AlienShoot(g, alien)
                           ELSE AlienShoot(g, alien)
              IN FireRows([g EXCEPT !.alienProjectiles = @ \o shots,
                                    !.stepFired = @ \cup {row}], row + 1)
         ELSE FireRows(g, row + 1)

AliveCells(as) == {<<as[i].row, as[i].col>> : i \in {j \in 1..Len(as) : as[j].alive}}

\* the loop counter after the step wrapped to column 0
LoopEnd(g) ==
    LET g0 == [g EXCEPT !.currentLoop = @ + 1,
                        !.doneTrace = g.loopTrace, !.loopTrace = <<>>]
        \* if (this.currentLoop === 6) aiAccuracy = Math.min(0.95, aiAccuracy + 0.1)
        g1 == IF g0.currentLoop = 6
              THEN [g0 EXCEPT !.aiAccuracy = Min(95, @ + 10)]
              ELSE g0
    IN IF g1.currentLoop > loopsPerWave
       THEN LET g2 == [g1 EXCEPT !.evolvedCells = @ \cup AliveCells(g1.aliens)]
            IN IF g2.defenderHP > 0 THEN GameLost(g2) ELSE g2
       ELSE RespawnAliens([g1 EXCEPT !.respawned = g1.grid \ AliveCells(g1.aliens)])

\* Update drum sequence
StepSection(g, stepDue) ==
    IF ~stepDue THEN g
    ELSE LET g1 == [g EXCEPT !.currentStep = (@ + 1) % gridCols]
             g2 == IF g1.currentStep = 0 THEN LoopEnd(g1) ELSE g1
             g3 == [g2 EXCEPT !.loopTrace = Append(@, g2.currentStep),
                              !.stepFired = {}, !.lastOp = "step"]
         IN FireRows(g3, 0)

\* Quick Respawn reviving an alien when its counter is only half way down
QuickRespawnEarly(g) ==
    IF "quickRespawn" \notin g.upgrades THEN g
    ELSE LET counting(a) == ~a.alive /\ a.respawnIn # -1
             back(a) == counting(a) /\ a.respawnIn - 1 <= QuickRespawnIn \div 2
         IN [g EXCEPT
               !.aliens = [i \in 1..Len(g.aliens) |->
                  LET a == g.aliens[i]
                  IN IF back(a)
                     THEN [a EXCEPT !.alive = TRUE,
                                    !.hp = IF a.maxHp = 0 THEN 1 ELSE a.maxHp,
                                    !.respawnIn = -1]
                     ELSE IF counting(a) THEN [a EXCEPT !.respawnIn = @ - 1]
                     ELSE a],
               !.revived = {<<g.aliens[i].row, g.aliens[i].col>> :
                               i \in {j \in 1..Len(g.aliens) : back(g.aliens[j])}}]

\* Update alien respawn counters (Quick Respawn upgrade)
QuickRespawnSection(g) ==
    IF "quickRespawn" \notin g.upgrades THEN g
    ELSE LET counting(a) == ~a.alive /\ a.respawnIn # -1
             back(a) == counting(a) /\ a.respawnIn - 1 <= 0
         IN [g EXCEPT
               !.aliens = [i \in 1..Len(g.aliens) |->
                  LET a == g.aliens[i]
                  IN IF back(a)
                     THEN [a EXCEPT !.alive = TRUE,
                                    !.hp = IF a.maxHp = 0 THEN 1 ELSE a.maxHp,
                                    !.respawnIn = -1]
                     ELSE IF counting(a) THEN [a EXCEPT !.respawnIn = @ - 1]
                     ELSE a],
               !.revived = {<<g.aliens[i].row, g.aliens[i].col>> :
                               i \in {j \in 1..Len(g.aliens) : back(g.aliens[j])}}]

Playing(g, in) ==
    LET g0 == [g EXCEPT !.lastOp = "update", !.stepFired = {}, !.respawned = {},
                        !.revived = {}, !.killed = {}, !.hits = <<>>,
                        !.absorbed = <<>>]
        g1 == FireZonesSection(g0, in.zin)
        g2 == ShootSection(g1, in.shoot)
        g2b == BossAISection(g2)
        g3 == BulletLoop(g2b, in.bout, Len(in.bout))
        g4 == ProjLoop(g3, in.pout, Len(in.pout), in.draws)
        g5 == StepSection(g4, in.stepDue)
    IN QuickRespawnSection(g5)

Update(g, in) ==
    LET g0 == [g EXCEPT !.lastOp = "update", !.stepFired = {}, !.respawned = {},
                        !.revived = {}, !.killed = {}, !.hits = <<>>,
                        !.absorbed = <<>>]
    IN IF g.freezeFrames > 0 THEN [g0 EXCEPT !.freezeFrames = @ - 1]
       ELSE IF g.wavePhase = "prepare"
       THEN IF g.phaseTimer + 1 >= PrepareFrames
            THEN [g0 EXCEPT !.wavePhase = "playing", !.phaseTimer = 0,
                            !.currentLoop = 1, !.currentStep = 0,
                            !.loopTrace = <<>>, !.doneTrace = <<>>]
            ELSE [g0 EXCEPT !.phaseTimer = @ + 1]
       ELSE IF g.wavePhase = "cardpick" THEN g0
       ELSE IF g.wavePhase = "complete"
       THEN IF g.phaseTimer + 1 >= CompleteFrames
            THEN LET g1 == UpdateAIForWave([g0 EXCEPT !.currentWave = @ + 1])
                 IN RespawnAliens([g1 EXCEPT !.isBossWave = IsBoss(g1.currentWave),
                                             !.wavePhase = "prepare", !.phaseTimer = 0])
            ELSE [g0 EXCEPT !.phaseTimer = @ + 1]
       ELSE IF g.wavePhase = "gameover" THEN g0
       ELSE Playing(g, in)

(***************************************************************************)
(* The inputs a tick can see.  env restricts the environment:              *)
(*   env.stepDues  the values of stepDue                                   *)
(*   env.shoots    the values of shoot                                     *)
(*   env.pouts     the outcomes a projectile can have in one tick          *)
(*   env.zins      the values of zin[i]                                    *)
(*   env.draws     the draw triples of generateCardChoices                 *)
(*   env.maxBullets, env.maxProj, env.maxZones   the tick is cut off when  *)
(*                 more bullets, projectiles or fire zones would be alive  *)
(***************************************************************************)
NoInput == [stepDue |-> FALSE, shoot |-> FALSE, bout |-> <<>>, pout |-> <<>>,
            zin |-> <<>>, draws |-> <<0, 0, 0>>]

Seqs(n, S) == IF n = 0 THEN {<<>>} ELSE [1..n -> S]

ValidInput(g, in, env) ==
    /\ in.shoot => /\ \E i \in 1..Len(g.aliens) : g.aliens[i].alive
                   /\ g.bullets + g.aiShotsPerTurn <= env.maxBullets
    /\ \A i \in 1..Len(in.bout) :
          in.bout[i] >= 1 =>
             /\ g.aliens[in.bout[i]].alive
             /\ \A j \in 1..(i - 1) : in.bout[j] # in.bout[i]
    /\ \A i \in 1..Len(in.pout) :
          in.pout[i] = "blast" => g.alienProjectiles[i].type = "cannon"

TickInputs(g, env) ==
    IF g.freezeFrames > 0 \/ g.wavePhase # "playing" THEN {NoInput}
    ELSE {in \in [stepDue : env.stepDues, shoot : env.shoots,
                  bout : Seqs(g.bullets, (-1)..Len(g.aliens)),
                  pout : Seqs(Len(g.alienProjectiles), env.pouts),
                  zin : Seqs(Len(g.fireZones), env.zins),
                  draws : env.draws] : ValidInput(g, in, env)}

WithinBounds(g, env) ==
    /\ Len(g.alienProjectiles) <= env.maxProj
    /\ Len(g.fireZones) <= env.maxZones
    /\ g.currentLoop <= loopsPerWave + ExtraLoops

(***************************************************************************)
(* Actions: one per handler                                                *)
(***************************************************************************)
\* draw(): of the game's state it changes the budget display's shake timer
Draw(g) == [g EXCEPT !.budgetShakeTimer = IF @ > 0 THEN @ - 1 ELSE @]

\* requestAnimationFrame -> animate: update(), then draw()
Tick(env) ==
    \E in \in TickInputs(G, env) :
        LET g == Draw(Update(G, in))
        IN WithinBounds(g, env) /\ Apply(g)

\* canvas click on a grid cell; the player clicks the cells of cells while window holds
GridClick(cells, window) ==
    /\ window
    /\ wavePhase \notin {"gameover", "cardpick"}
    /\ \E cell \in cells :
          /\ cell[1] < gridRows
          /\ Apply(ToggleGridCell(G, cell[1], cell[2]))

\* canvas click on card i during cardpick; fills are the outcomes of scramble's draws
CardClick(picks, fills, maxWave, maxBpm) ==
    /\ wavePhase = "cardpick"
    /\ currentWave < maxWave
    /\ \E i \in picks, fill \in fills :
          /\ i < Len(currentCardChoices)
          /\ SelectCard(G, i, fill).bpm <= maxBpm
          /\ Apply(SelectCard(G, i, fill))

\* canvas click, or the R key, on the game-over screen
RestartClick ==
    /\ wavePhase = "gameover"
    /\ Apply(RestartGame(G))

\* preset buttons
PresetClick(names, window) ==
    /\ window
    /\ \E name \in names : Apply(LoadPreset(G, Presets[name]))

\* the Clear button
ClearClick(window) ==
    /\ window
    /\ Apply([ClearGrid(G) EXCEPT !.lastOp = "clearGrid"])

\* the BPM slider is moved to one of values
BpmSlide(values, window) ==
    /\ window
    /\ \E newBpm \in values : Apply(BpmInput(G, newBpm))

\* update() -> updateAI(): the movement decision for a defender at one of xs
\* under one of the threats srcs
AIStep(xs, srcs, window) ==
    /\ window
    /\ wavePhase = "playing"
    /\ \E x \in xs, src \in srcs : Apply(AIMove(G, x, src))

StartFrom(g) ==
    /\ wavePhase = g.wavePhase
    /\ currentWave = g.currentWave
    /\ currentLoop = g.currentLoop
    /\ currentStep = g.currentStep
    /\ phaseTimer = g.phaseTimer
    /\ freezeFrames = g.freezeFrames
    /\ gridRows = g.gridRows
    /\ grid = g.grid
    /\ aliens = g.aliens
    /\ evolvedCells = g.evolvedCells
    /\ alienBudget = g.alienBudget
    /\ alienBudgetMax = g.alienBudgetMax
    /\ budgetShakeTimer = g.budgetShakeTimer
    /\ upgrades = g.upgrades
    /\ currentCardChoices = g.currentCardChoices
    /\ defenderHP = g.defenderHP
    /\ defenderMaxHP = g.defenderMaxHP
    /\ bpm = g.bpm
    /\ defenderSpeed = g.defenderSpeed
    /\ shotDelay = g.shotDelay
    /\ aiAccuracy = g.aiAccuracy
    /\ aiShotsPerTurn = g.aiShotsPerTurn
    /\ isBossWave = g.isBossWave
    /\ bossShield = g.bossShield
    /\ bossShieldTimer = g.bossShieldTimer
    /\ bossMissileTimer = g.bossMissileTimer
    /\ alienProjectiles = g.alienProjectiles
    /\ bullets = g.bullets
    /\ fireZones = g.fireZones
    /\ lastOp = g.lastOp
    /\ stepFired = g.stepFired
    /\ respawned = g.respawned
    /\ revived = g.revived
    /\ killed = g.killed
    /\ waveWon = g.waveWon
    /\ aiView = g.aiView
    /\ hits = g.hits
    /\ absorbed = g.absorbed
    /\ loopTrace = g.loopTrace
    /\ doneTrace = g.doneTrace

\* location.hash: none, or pattern=8001-0000-0000 (bass cannons in columns 0 and 15)
NoHash == [rows |-> <<>>, bpm |-> 0]
TwoCannons == [rows |-> <<32769, 0, 0>>, bpm |-> 0]

(***************************************************************************)
(* Spec: the step sequencer.  The player edits at any time, the defender   *)
(* shoots aliens, every alien projectile misses, so each wave runs its     *)
(* loopsPerWave loops and ends in game over.                               *)
(***************************************************************************)
ClickCells == {<<0, 0>>, <<2, 0>>}

EnvSeq == [stepDues |-> BOOLEAN, shoots |-> BOOLEAN, pouts |-> {"off"},
           zins |-> {FALSE}, draws |-> {<<0, 0, 0>>},
           maxBullets |-> MaxBullets, maxProj |-> MaxProj, maxZones |-> 0]

Init == StartFrom(LoadPatternFromURL(Constructed, NoHash))

Next ==
    \/ Tick(EnvSeq)
    \/ GridClick(ClickCells, TRUE)
    \/ RestartClick

Spec == Init /\ [][Next]_vars

(***************************************************************************)
(* SpecWave: waves, phases and damage.  The pattern comes from the URL and *)
(* is not edited; every tick advances the sequencer; a projectile hits or  *)
(* misses in the tick after it was fired; the defender stays inside every  *)
(* fire zone.                                                              *)
(***************************************************************************)
EnvWave == [stepDues |-> {TRUE}, shoots |-> {FALSE}, pouts |-> {"hit", "off"},
            zins |-> {TRUE}, draws |-> {<<0, 0, 0>>},
            maxBullets |-> 0, maxProj |-> 1, maxZones |-> MaxZones]

InitWave == StartFrom(LoadPatternFromURL(Constructed, TwoCannons))

NextWave ==
    \/ Tick(EnvWave)
    \/ CardClick(0..2, {{}}, MaxWaveCombat, MaxBpm)
    \/ RestartClick

SpecWave == InitWave /\ [][NextWave]_vars

(***************************************************************************)
(* SpecBudget: the alien budget while the pattern is edited.  The player   *)
(* edits the pattern (cells, a preset, Clear) before the sequencer's first *)
(* advance of a game and in the last frame of each prepare phase: edits    *)
(* commute                                                                 *)
(* with the prepare countdown, which changes phaseTimer alone.  Every      *)
(* projectile hits in the tick after it was fired, generateCardChoices     *)
(* draws the last cards of the pool (mirrorBeat, scramble, doubleTime      *)
(* first), and the player picks one of the first two cards shown.          *)
(***************************************************************************)
EditWindow ==
    \/ wavePhase = "prepare" /\ phaseTimer = PrepareFrames - 1
    \/ wavePhase = "playing" /\ currentWave = 1 /\ currentLoop = 1 /\ currentStep = 0

EnvBudget == [stepDues |-> {TRUE}, shoots |-> {FALSE}, pouts |-> {"hit"},
              zins |-> {FALSE}, draws |-> {<<11, 11, 11>>},
              maxBullets |-> 0, maxProj |-> MaxProjBudget, maxZones |-> 0]

BudgetCells == {<<0, 0>>, <<0, 1>>, <<0, 2>>}

InitBudget == \E hash \in {NoHash, TwoCannons} :
                 StartFrom(LoadPatternFromURL(Constructed, hash))

NextBudget ==
    \/ Tick(EnvBudget)
    \/ GridClick(BudgetCells, EditWindow)
    \/ PresetClick({"rock"}, EditWindow)
    \/ ClearClick(EditWindow)
    \/ CardClick(0..1, {{<<1, 1>>}}, MaxWaveBudget, MaxBpm)
    \/ RestartClick

SpecBudget == InitBudget /\ [][NextBudget]_vars

(***************************************************************************)
(* SpecCap: the budget's maximum over many waves.  The pattern comes from  *)
(* the URL and is not edited; a projectile hits or misses in the tick      *)
(* after it was fired, so a wave is won or lost; generateCardChoices draws *)
(* the last cards of the pool and the player picks the first card shown.   *)
(***************************************************************************)
EnvCap == [stepDues |-> {TRUE}, shoots |-> {FALSE}, pouts |-> {"hit", "off"},
           zins |-> {FALSE}, draws |-> {<<11, 11, 11>>},
           maxBullets |-> 0, maxProj |-> MaxProj, maxZones |-> 0]

NextCap ==
    \/ Tick(EnvCap)
    \/ CardClick(0..0, {{}}, MaxWaveCap, MaxBpmCap)
    \/ RestartClick

SpecCap == InitWave /\ [][NextCap]_vars

\* The long game: the URL pattern's two cannons, every projectile hits, the
\* defender never shoots and stands clear of the fire zones; the first card
\* is picked after every wave, so that the whole pool is bought by wave 13.
EnvLong == [stepDues |-> {TRUE}, shoots |-> {FALSE}, pouts |-> {"hit"},
            zins |-> {FALSE}, draws |-> {<<11, 11, 11>>},
            maxBullets |-> 0, maxProj |-> MaxProj, maxZones |-> MaxZonesLong]

NextLong ==
    \/ Tick(EnvLong)
    \/ CardClick(0..0, {{}}, MaxWaveLong, MaxBpm)

SpecLong == InitWave /\ [][NextLong]_vars

\* The dodge: updateAI's movement decision over defender positions at the
\* walls, in the corners and in the field, and over threat maps made by
\* projectiles in up to MaxThreats zones, once per behaviour.
Urgencies == {20, 80, 160}

Positions == {0, 4, 45, 130, 380, 600, 735, 757}

ThreatSources ==
    UNION {[S -> Urgencies] :
             S \in {T \in SUBSET (0..(ThreatZones - 1)) : Cardinality(T) <= MaxThreats}}

FastTempo == [rows |-> <<32769, 0, 0>>, bpm |-> 200]

InitDodge == \E hash \in {TwoCannons, FastTempo} :
                StartFrom(LoadPatternFromURL(Constructed, hash))

NextDodge == AIStep(Positions, ThreatSources, ~aiView.seen)

SpecDodge == InitDodge /\ [][NextDodge]_vars

\* The first boss wave: the long game up to the wave after the boss wave, from
\* a URL with or without a tempo; the player moves the tempo slider and places
\* or removes a hi-hat alien when a wave starts to play.
WaveStart == wavePhase = "playing" /\ currentLoop = 1 /\ currentStep = 0

BossCells == {<<2, 8>>}

InitBoss == \E hash \in {TwoCannons, FastTempo} :
               StartFrom(LoadPatternFromURL(Constructed, hash))

NextBoss ==
    \/ Tick(EnvLong)
    \/ CardClick(0..0, {{}}, MaxWaveBoss, MaxBpm)
    \/ GridClick(BossCells, WaveStart)
    \/ BpmSlide({60, 200}, WaveStart)

SpecBoss == InitBoss /\ [][NextBoss]_vars

\* Quick Respawn: the first card offered after wave 1 is Quick Respawn; the
\* defender shoots in both waves, every alien projectile hits, and a step is
\* due in some ticks and not in others.
QuickRespawnFirst == <<5, 0, 0>>

EnvRespawn == [stepDues |-> BOOLEAN, shoots |-> BOOLEAN, pouts |-> {"hit"},
               zins |-> {FALSE}, draws |-> {QuickRespawnFirst},
               maxBullets |-> MaxBulletsRespawn, maxProj |-> MaxProj, maxZones |-> 0]

NextRespawn ==
    \/ Tick(EnvRespawn)
    \/ CardClick(0..0, {{}}, MaxWaveRespawn, MaxBpm)

SpecRespawn == InitWave /\ [][NextRespawn]_vars

\* The pattern and its aliens: the player edits as in SpecBudget, also on the
\* fourth row once it exists; generateCardChoices offers Mirror Beat, Scramble
\* and Extra Row first and the player picks any of the three; scramble fills
\* the empty ones of two cells, one of them on the fourth row.  A game is one wave and a card; the fourth row stays
\* over restarts.
PatternCardsFirst == <<11, 10, 7>>

EnvGrid == [stepDues |-> {TRUE}, shoots |-> {FALSE}, pouts |-> {"hit"},
            zins |-> {FALSE}, draws |-> {PatternCardsFirst},
            maxBullets |-> 0, maxProj |-> MaxProjBudget, maxZones |-> 0]

GridCells == {<<0, 0>>, <<3, 1>>}

ScrambleFills == {{<<1, 1>>, <<3, 14>>}}

NextGrid ==
    \/ Tick(EnvGrid)
    \/ GridClick(GridCells, EditWindow)
    \/ PresetClick({"rock"}, EditWindow)
    \/ ClearClick(EditWindow)
    \/ CardClick(0..2, ScrambleFills, MaxWaveGrid, MaxBpm)
    \/ RestartClick

SpecGrid == InitBudget /\ [][NextGrid]_vars

\* The boss shield: games up to the first boss wave.  Before it every tick
\* advances the sequencer and every projectile hits.  In the boss wave a step
\* falls due every FramesPerStep-th update, so that the wave outlasts the shield
\* timer, and a projectile hits or misses.
EnvShield == [stepDues |-> {bossShieldTimer % FramesPerStep = 0}, shoots |-> {FALSE},
              pouts |-> {"hit", "off"}, zins |-> {FALSE}, draws |-> {<<11, 11, 11>>},
              maxBullets |-> 0, maxProj |-> MaxProjShield, maxZones |-> MaxZonesLong]

NextShield ==
    \/ Tick(IF isBossWave THEN EnvShield ELSE EnvLong)
    \/ CardClick(0..0, {{}}, MaxWaveShield, MaxBpm)
    \/ RestartClick

SpecShield == InitWave /\ [][NextShield]_vars

(***************************************************************************)
(* src/game.js: the Game class of README v1.1 (the file declares it twice, *)
(* with the same click listener and the same bullet collision code).  It   *)
(* has no waves, budget or hit points: of the variables it uses grid,      *)
(* aliens, bullets, currentStep and freezeFrames; the others keep the      *)
(* value they start with.                                                  *)
(***************************************************************************)
\* the canvas click listener on a grid cell
ToggleV1(g, row, col) ==
    IF <<row, col>> \in g.grid
    THEN [g EXCEPT !.grid = @ \ {<<row, col>>},
                   !.aliens = SelectSeq(@, LAMBDA a : ~(a.row = row /\ a.col = col)),
                   !.lastOp = "toggleOff"]
    ELSE [g EXCEPT !.grid = @ \cup {<<row, col>>},
                   !.aliens = Append(@, NewAlien(row, col, 0, 0, FALSE)),
                   !.lastOp = "toggleOn"]

\* shoot()
ShootV1(g) == [g EXCEPT !.bullets = @ + 1]

\* one bullet that collides with the alive alien standing on cell
BulletHitV1(g, cell) ==
    [g EXCEPT !.freezeFrames = FreezeOnHit,
              !.grid = @ \ {cell},
              !.aliens = RemoveAt(@, FindAlive(@, cell[1], cell[2])),
              !.bullets = @ - 1,
              !.killed = @ \cup {cell}]

\* what a bullet does in a tick other than collide: fly on, or leave the screen
Flying == <<-1, -1>>
OffScreen == <<-2, -2>>

\* for (let i = this.bullets.length - 1; i >= 0; i--): bout[i] is Flying,
\* OffScreen or the cell whose alien bullet i collides with
RECURSIVE BulletLoopV1(_, _, _)
BulletLoopV1(g, bout, i) ==
    IF i = 0 THEN g
    ELSE IF bout[i] = Flying THEN BulletLoopV1(g, bout, i - 1)
    ELSE IF bout[i] = OffScreen THEN BulletLoopV1([g EXCEPT !.bullets = @ - 1], bout, i - 1)
    ELSE BulletLoopV1(BulletHitV1(g, bout[i]), bout, i - 1)

\* Update drum sequence: the rows whose sound plays are kept in stepFired
StepSectionV1(g, stepDue) ==
    IF ~stepDue THEN g
    ELSE LET step == (g.currentStep + 1) % gridCols
         IN [g EXCEPT !.currentStep = step,
                      !.stepFired = {row \in 0..(g.gridRows - 1) :
                                        /\ <<row, step>> \in g.grid
                                        /\ FindAlive(g.aliens, row, step) # 0},
                      !.lastOp = "step"]

\* update(); in.shoot: updateAI() found an alien, the shot is due and not missed
UpdateV1(g, in) ==
    LET g0 == [g EXCEPT !.lastOp = "update", !.stepFired = {}, !.killed = {}]
    IN IF g.freezeFrames > 0 THEN [g0 EXCEPT !.freezeFrames = @ - 1]
       ELSE LET g1 == IF in.shoot THEN ShootV1(g0) ELSE g0
                g2 == BulletLoopV1(g1, in.bout, Len(in.bout))
            IN StepSectionV1(g2, in.stepDue)

V1Cells == {<<0, 0>>, <<0, 1>>, <<2, 1>>}

\* the bullets of one tick collide with alive aliens, no two with the same one
TickInputsV1(g) ==
    IF g.freezeFrames > 0 THEN {[stepDue |-> FALSE, shoot |-> FALSE, bout |-> <<>>]}
    ELSE {in \in [stepDue : BOOLEAN, shoot : BOOLEAN,
                  bout : Seqs(g.bullets, {Flying, OffScreen} \cup AliveCells(g.aliens))] :
            /\ in.shoot => AliveCells(g.aliens) # {} /\ g.bullets < MaxBullets
            /\ \A i, j \in 1..Len(in.bout) :
                  (i # j /\ in.bout[i] = in.bout[j]) => in.bout[i] \in {Flying, OffScreen}}

TickV1 == \E in \in TickInputsV1(G) : Apply(UpdateV1(G, in))

GridClickV1 == \E cell \in V1Cells : Apply(ToggleV1(G, cell[1], cell[2]))

\* keydown ' '
ShootKeyV1 ==
    /\ bullets < MaxBullets
    /\ Apply([ShootV1(G) EXCEPT !.lastOp = "shoot"])

InitV1 == StartFrom(Constructed)

NextV1 == TickV1 \/ GridClickV1 \/ ShootKeyV1

SpecV1 == InitV1 /\ [][NextV1]_vars

(***************************************************************************)
(* Claims checked under SpecWave                                           *)
(***************************************************************************)

\* C2: whenever the wave is being played the defender has hit points left:
\* wavePhase = 'playing' implies defenderHP > 0.
C2_AliveWhilePlaying == wavePhase = "playing" => defenderHP > 0

\* C3: a wave in which waveComplete() ran never ends in game over.
C3_WonWaveNotLost == ~(wavePhase = "gameover" /\ waveWon)

\* the crossfire tiers as stated: the value for a weapon and n alive aliens in
\* the firing alien's column (cannon: bass row, burst: snare rows, homing: hi-hat)
StatedTier(type, n) ==
    CASE type = "cannon" -> <<12, 15, 18>>[n]
      [] type = "burst" -> <<3, 4, 4>>[n]
      [] type = "homing" -> <<6, 8, 10>>[n]

\* C12: the damage of a projectile alienShoot pushed is the flat tier value
\* selected by the firing alien's row and the number n of alive aliens in its
\* column (bass 12 / 15 / 18, snare 3 / 4 / 4, hi-hat 6 / 8 / 10), with no
\* multiplier stacked onto it.
C12_FlatTierDamage ==
    \A i \in 1..Len(alienProjectiles) :
        alienProjectiles[i].aliensOnStep \in 1..3 =>
            alienProjectiles[i].damage =
                StatedTier(alienProjectiles[i].type, alienProjectiles[i].aliensOnStep)

(***************************************************************************)
(* Claims checked under Spec                                               *)
(***************************************************************************)

\* C5: when the sequencer advances to column currentStep, alienShoot is
\* called for row r iff grid[r][currentStep] is active and the alien of that
\* cell is alive; currentStep always lies in 0 .. gridCols - 1.
C5_StepFiring ==
    /\ currentStep \in 0..(gridCols - 1)
    /\ lastOp = "step" =>
          stepFired = {r \in 0..(gridRows - 1) :
                          /\ <<r, currentStep>> \in grid
                          /\ AliveAt(aliens, r, currentStep)
                          /\ <<r, currentStep>> \notin revived}

\* a step on which one active cell fired and another, its alien dead, did not
C5_Witness ==
    /\ lastOp = "step"
    /\ stepFired # {}
    /\ \E r \in 0..(gridRows - 1) :
          <<r, currentStep>> \in grid /\ r \notin stepFired

\* C6: within one loop index the sequencer visits every column
\* 0 .. gridCols - 1 exactly once: the columns it advanced to (and played)
\* while currentLoop had the value of a finished loop are
\* <<0, 1, ..., gridCols - 1>>.
C6_LoopVisitsEveryColumn ==
    doneTrace # <<>> => doneTrace = [i \in 1..gridCols |-> i - 1]

\* C7: at every loop boundary inside a wave (the step wrapped to column 0 and
\* currentLoop <= loopsPerWave) every active cell has exactly one alive alien.
C7_RespawnAtLoopBoundary ==
    (lastOp = "step" /\ currentStep = 0 /\ currentLoop <= loopsPerWave
        /\ wavePhase = "playing") =>
       \A cell \in grid :
          Cardinality({i \in 1..Len(aliens) :
                          /\ aliens[i].row = cell[1]
                          /\ aliens[i].col = cell[2]
                          /\ aliens[i].alive}) = 1

\* a loop boundary that respawned an alien the defender had killed
C7_Witness ==
    /\ lastOp = "step"
    /\ currentStep = 0
    /\ currentLoop \in 2..loopsPerWave
    /\ respawned # {}

\* C18: while wavePhase is 'playing' the grid never changes: a step that
\* starts and ends in 'playing' leaves grid as it was (a defender bullet that
\* kills an alien only clears the alien's alive flag).
C18_GridFixedWhilePlaying ==
    [][(wavePhase = "playing" /\ wavePhase' = "playing") => grid' = grid]_vars

(***************************************************************************)
(* Claims checked under SpecBudget                                         *)
(***************************************************************************)
\* sum of alienCosts[r] over the active cells (r, c)
PlacedCost ==
    LET count(r) == Cardinality({cell \in grid : cell[1] = r})
    IN count(0) * Cost(0) + count(1) * Cost(1) + count(2) * Cost(2)
       + count(3) * Cost(3) + count(4) * Cost(4)

\* C1: the placement cost of the active cells never exceeds alienBudgetMax.
C1_PlacedCostWithinMax == PlacedCost <= alienBudgetMax

\* C8: toggling an active cell of row r off raises alienBudget by exactly
\* alienCosts[r].
C8_ExactRefund ==
    [][(lastOp' = "toggleOff" /\ grid' # grid) =>
          \E cell \in grid \ grid' :
             alienBudget' = alienBudget + Cost(cell[1])]_vars

\* C10: a placement is accepted only when alienBudget covers its cost, and
\* then deducts exactly that cost; a rejected placement leaves grid, aliens
\* and alienBudget unchanged and sets budgetShakeTimer; and always
\* 0 <= alienBudget <= alienBudgetMax.
C10_Placement ==
    /\ [](0 <= alienBudget /\ alienBudget <= alienBudgetMax)
    /\ [][/\ lastOp' = "toggleOn" /\ grid' # grid =>
                \E cell \in grid' \ grid :
                   /\ grid' = grid \cup {cell}
                   /\ Cost(cell[1]) <= alienBudget
                   /\ alienBudget' = alienBudget - Cost(cell[1])
          /\ lastOp' = "toggleReject" /\ budgetShakeTimer' # budgetShakeTimer =>
                /\ grid' = grid
                /\ aliens' = aliens
                /\ alienBudget' = alienBudget
                /\ budgetShakeTimer' = ShakeFrames]_vars

\* a placement was rejected: the budget is below the cost of a bass cannon
C10_Witness ==
    /\ lastOp = "toggleReject"
    /\ budgetShakeTimer = ShakeFrames
    /\ alienBudget < Cost(0)

(***************************************************************************)
(* Claims checked under SpecCap                                            *)
(***************************************************************************)

\* C9: alienBudgetMax = min(24, 8 + (currentWave - 1) * 2) always, and right
\* after selectCard and after restartGame alienBudget = alienBudgetMax.
C9_BudgetMax ==
    /\ alienBudgetMax = Min(BudgetCap, BudgetStart + (currentWave - 1) * BudgetPerWave)
    /\ lastOp \in {"selectCard", "restartGame"} => alienBudget = alienBudgetMax

\* selectCard entered the wave at which the cap takes over from 8 + (w - 1) * 2
C9_Witness ==
    /\ lastOp = "selectCard"
    /\ BudgetStart + (currentWave - 1) * BudgetPerWave > BudgetCap
    /\ alienBudgetMax = BudgetCap

\* the phase changes the specification's state machine allows
StatedPhaseSteps ==
    {<<"playing", "prepare">>, <<"prepare", "cardpick">>, <<"prepare", "complete">>,
     <<"cardpick", "playing">>, <<"complete", "playing">>,
     <<"playing", "gameover">>, <<"gameover", "playing">>}

\* the phase changes of waveComplete, selectCard, update, gameLost, restartGame
ActualPhaseSteps ==
    {<<"playing", "cardpick">>, <<"cardpick", "prepare">>, <<"prepare", "playing">>,
     <<"playing", "gameover">>, <<"gameover", "playing">>}

C13_ScoreOnHit ==
    \A i \in 1..Len(hits) :
        /\ hits[i].hpLoss = hits[i].damage
        /\ hits[i].scoreGain =
              hits[i].damage + (CASE hits[i].aliensOnStep = 2 -> 10
                                  [] hits[i].aliensOnStep = 3 -> 30
                                  [] OTHER -> 0)

\* a projectile fired from a column with 3 alive aliens has damaged the defender
C13_Witness ==
    \E i \in 1..Len(hits) : hits[i].aliensOnStep = 3 /\ hits[i].scoreGain > hits[i].damage

(***************************************************************************)
(* Claims checked under SpecDodge                                          *)
(***************************************************************************)
\* the stated score of zone z, in hundredths:
\* threat[z] * 3 + |z - current| * 0.1 + (0.5 if z in {0, 1, 14, 15}) + |z - 8| * 0.02
StatedDodgeScore(z) ==
    aiView.threatMap[z] * 3 + Abs(z - aiView.currentZone) * 10
    + (IF z \in {0, 1, 14, 15} THEN 50 ELSE 0) + Abs(z - 8) * 2

\* the zones within 4 zones of the current one, clamped to 0 .. 15
StatedNearZones ==
    {z \in 0..15 : Abs(z - aiView.currentZone) <= 4}

\* C14: whenever the threat of the defender's current zone exceeds 0.3,
\* bestZone is the lowest-index zone within 4 zones of the current one that
\* minimises the stated score, and the defender moves exactly one speed step
\* toward it; when bestZone is the current zone it moves only to unstick
\* from a wall.
C14_DodgeDecision ==
    (aiView.seen /\ aiView.threatMap[aiView.currentZone] > 30) =>
        LET best == CHOOSE z \in StatedNearZones :
                       \A y \in StatedNearZones :
                          \/ StatedDodgeScore(z) < StatedDodgeScore(y)
                          \/ StatedDodgeScore(z) = StatedDodgeScore(y) /\ z <= y
        IN /\ aiView.bestZone = best
           /\ aiView.newX =
                 (IF best < aiView.currentZone THEN aiView.x - aiView.speed
                  ELSE IF best > aiView.currentZone THEN aiView.x + aiView.speed
                  ELSE IF aiView.x <= 5 THEN aiView.x + aiView.speed
                  ELSE IF aiView.x >= 800 - 40 - 5 THEN aiView.x - aiView.speed
                  ELSE aiView.x)

\* under fire the defender moved one speed step toward a lower-index zone
\* that a higher-index zone tied with for the lowest score
C14_Witness ==
    /\ aiView.seen
    /\ aiView.threatMap[aiView.currentZone] > 30
    /\ aiView.bestZone < aiView.currentZone
    /\ aiView.newX = aiView.x - aiView.speed
    /\ \E y \in StatedNearZones :
          /\ y > aiView.bestZone
          /\ StatedDodgeScore(y) = StatedDodgeScore(aiView.bestZone)

(***************************************************************************)
(* Claims checked under SpecLong                                           *)
(***************************************************************************)
\* the wave-scaling table as stated: rows for waves 1 to 4, the boss row for
\* multiples of 5, the berserk row for the other waves from 10 on, and the
\* remaining row for waves 6 to 9
StatedAI(w) ==
    CASE w = 1 -> <<1500, 30, 1>>
      [] w = 2 -> <<1200, 40, 1>>
      [] w = 3 -> <<900, 50, 1>>
      [] w = 4 -> <<600, 65, 1>>
      [] w >= 5 /\ w % 5 = 0 -> <<400, 80, 2>>
      [] w >= 10 /\ w % 5 # 0 -> <<200, 90, 3>>
      [] w \in 6..9 -> <<350, 85, 2>>

C19_DifficultyEscalates ==
    [][currentWave' = currentWave + 1 =>
          /\ shotDelay' <= AIForWave(currentWave).shotDelay
          /\ aiAccuracy' >= AIForWave(currentWave).aiAccuracy
          /\ aiShotsPerTurn' >= AIForWave(currentWave).aiShotsPerTurn]_vars

(***************************************************************************)
(* More claims checked under SpecCap                                       *)
(***************************************************************************)
\* C15: isBossWave is true exactly when currentWave is a multiple of 5, in
\* every reachable state, across wave advances and restartGame.
C15_BossWaveFlag == isBossWave <=> (currentWave % 5 = 0)

\* the second boss wave is being played
C15_Witness == isBossWave /\ currentWave = 10 /\ wavePhase = "playing"

(***************************************************************************)
(* Claims checked under SpecBoss                                           *)
(***************************************************************************)
\* defender bullets an alien takes from its creation to its death: maxHp, or
\* for an alien without the field the 1 of "if (!alien.hp) alien.hp = 1"
\* (the 2 Alien Armor gave it)
HitsToDie(a) == IF a.maxHp # 0 THEN a.maxHp ELSE IF a.hp = 0 THEN 1 ELSE a.hp

\* C16: while a boss wave is playing every alive alien takes 3 defender
\* bullet hits to die (6 with Alien Armor), the aliens the player places
\* during that wave included.
C16_BossAliensTripleHP ==
    (isBossWave /\ wavePhase = "playing") =>
        \A i \in 1..Len(aliens) :
            aliens[i].alive =>
                HitsToDie(aliens[i]) = 3 * (IF "alienArmor" \in upgrades THEN 2 ELSE 1)

\* num / den rounded to the nearest integer, halves up (Math.round)
StatedRound(num, den) == (2 * num + den) \div (2 * den)

\* round(5 * speedScale * factor) with speedScale = 1 + ((bpm - 60) / 140) * 1.5
\* = (280 + 3 * (bpm - 60)) / 280, for factor = 1 and factor = 1.5 = 3 / 2
StatedSpeed == StatedRound(5 * (280 + 3 * (bpm - 60)), 280)

StatedBossSpeed == StatedRound(15 * (280 + 3 * (bpm - 60)), 560)

\* C17: while a boss wave is playing defender.speed = round(5 * speedScale * 1.5),
\* and while another wave is playing (no speed power-up is modelled)
\* defender.speed = round(5 * speedScale).
C17_DefenderSpeed ==
    wavePhase = "playing" =>
        defenderSpeed = IF isBossWave THEN StatedBossSpeed ELSE StatedSpeed

\* C20: 60 <= bpm <= 200 in every reachable state: after slider inputs
\* within 60 .. 200, URL loads, card upgrades (Tempo Push) and restarts.
C20_BpmInRange == bpm >= 60 /\ bpm <= 200

(***************************************************************************)
(* Claims checked under SpecV1                                             *)
(***************************************************************************)

\* C21: an alien shot by the defender is not gone for good: after the update in
\* which a bullet killed the alien of a cell, the cell is still active in grid
\* (so that an alien can be alive on it again later).
C21_ShotCellStaysActive == \A cell \in killed : cell \in grid

(***************************************************************************)
(* Claims checked under SpecWave: the end of a wave                        *)
(***************************************************************************)

\* C22: every wave ends: at the end of an update tick the loop counter has not
\* passed loopsPerWave while the wave is still being played.
C22_WaveEndsByLastLoop == wavePhase = "playing" => currentLoop <= loopsPerWave

\* C23: between waves the battlefield is empty: whenever wavePhase is 'cardpick'
\* or 'prepare', no alien projectile and no bullet is in flight.
C23_ClearedBetweenWaves ==
    wavePhase \in {"cardpick", "prepare"} => alienProjectiles = <<>> /\ bullets = 0

(***************************************************************************)
(* Claims checked under SpecCap: hit points                                *)
(***************************************************************************)

\* C24: the defender never has more hit points than the maximum:
\* defenderHP <= defenderMaxHP in every reachable state.
C24_HPWithinMax == defenderHP <= defenderMaxHP

(***************************************************************************)
(* Claims checked under SpecRespawn                                        *)
(***************************************************************************)
\* an update tick inside a loop of a wave: no loop boundary, no phase change
InsideLoop ==
    /\ wavePhase = "playing" /\ wavePhase' = "playing"
    /\ currentLoop' = currentLoop
    /\ Len(aliens') = Len(aliens)

\* alien i's cell fires in the step the tick advances to
FiresNext(i) == aliens[i].col = currentStep' /\ aliens[i].row \in stepFired'

C26_BossShieldAbsorbs ==
    /\ bossShield \in 0..3
    /\ \A i \in 1..Len(absorbed) :
          /\ absorbed[i].boss /\ absorbed[i].shield > 0
          /\ absorbed[i].left = absorbed[i].shield - 1
          /\ absorbed[i].hpLoss = 0 /\ absorbed[i].scoreGain = 0
    /\ \A i \in 1..Len(hits) : ~(hits[i].boss /\ hits[i].shield > 0)

\* the shield absorbed a projectile in the last update of a boss wave
C26_Witness ==
    /\ isBossWave /\ wavePhase = "playing"
    /\ absorbed # <<>> /\ bossShield < 3
    /\ defenderHP > 0

(***************************************************************************)
(* Claims checked under SpecGrid                                           *)
(***************************************************************************)
\* the entries of the aliens list that stand on cell
EntriesAt(cell) == {i \in 1..Len(aliens) : <<aliens[i].row, aliens[i].col>> = cell}

\* C27: the aliens list holds exactly one entry for each active grid cell and
\* no entry for an inactive cell.
C27_GridAlienConsistency ==
    /\ \A cell \in grid : Cardinality(EntriesAt(cell)) = 1
    /\ \A i \in 1..Len(aliens) : <<aliens[i].row, aliens[i].col>> \in grid

\* a pattern on four rows after Extra Row, Mirror Beat and an edit of a new game
C27_Witness ==
    /\ gridRows = 4 /\ \E cell \in grid : cell[1] = 3
    /\ <<0, 15>> \in grid
    /\ Len(aliens) >= 3

(***************************************************************************)
(* Claims checked under SpecLong: the card offer                           *)
(***************************************************************************)
\* the one-time cards not picked yet
Unpicked == {i \in 1..Len(CardPool) : CardPool[i] \notin upgrades}

\* C28: every cardpick phase offers exactly three cards, and while at least three
\* one-time cards are unpicked the three cards offered are pairwise distinct.
C28_CardOfferWellFormed ==
    wavePhase = "cardpick" =>
       /\ Len(currentCardChoices) = 3
       /\ Cardinality(Unpicked) >= 3 =>
             \A i, j \in 1..3 : i # j => currentCardChoices[i] # currentCardChoices[j]
====
